---- MODULE Spec2Model ----
(***************************************************************************)
(* A model of the browser-automation harness in utils.py: the shared       *)
(* session kept in CURRENT_BROWSER (the autobrowser decorator and          *)
(* Browser.quit), the ordered runner run_numbered_tests, and the Browser   *)
(* helpers retry_loop, wait_until_ready, not_find, not_contains, wait,     *)
(* the element lookups, b(val), contains, login and logout.                *)
(*                                                                         *)
(* Each subsystem has its own specification over the same variables:       *)
(*   SpecRun      one call of run_numbered_tests on a test group           *)
(*   SpecSession  auto-managed test calls and quit() at the shell          *)
(*   SpecRetry    one call of Browser.retry_loop                           *)
(*   SpecReady    one call of Browser.wait_until_ready                     *)
(*   SpecAbsent   one call of Browser.not_find / Browser.not_contains      *)
(*   SpecExplicit auto-managed calls and sessions the caller constructs    *)
(*   SpecInject   decorated tests called with and without a Browser        *)
(*   SpecLookup   one element lookup behind the readiness gate             *)
(*   SpecWait     one call of Browser.wait                                 *)
(*   SpecShort    one call b(val)                                          *)
(*   SpecAccount  calls of Browser.login and Browser.logout                *)
(*   SpecContains one call of Browser.contains                             *)
(* Attribute names are sequences of character codes, so that slicing,      *)
(* '%02d' formatting and Python's string order are computed, not assumed.  *)
(***************************************************************************)
EXTENDS Integers, Sequences, FiniteSets

VARIABLES
  \* ---- the shared session (module global and the drivers) ----
  CURRENT_BROWSER,  \* utils.CURRENT_BROWSER: None or the id of a Browser
  live,             \* the Browser ids whose driver has not been shut down
  made,             \* how many Browser objects were created (ids 1..made)
  SECONDARY,        \* Browser.SECONDARY of each created Browser
  ended,            \* the Browser ids quit() was called on
  explicit,         \* the Browser ids made by a caller, not by the wrapper
  \* ---- configuration read by the autobrowser wrapper ----
  cfgShots,         \* selenium_cfg.SELENIUM_SCREENSHOTS
  envShots,         \* os.getenv('SELENIUM_SCREENSHOTS') == 'true'
  \* ---- one call through the autobrowser wrapper ----
  wpc,              \* "idle", "call", "body", "ret", "exc"
  callee,           \* "test" or "teardown": what the wrapper decorates
  passed,           \* the Browser handed to the decorated function
  quitDone,         \* the body has called b.quit()
  curAtEnter,       \* CURRENT_BROWSER when the wrapper was entered
  madeAtEnter,      \* made when the wrapper was entered
  curAtRaise,       \* CURRENT_BROWSER when the decorated call raised
  args,             \* the positional arguments of the call
  excOut,           \* the exception that leaves the wrapper, or "none"
  shotNote,         \* what the wrapper appended to e.msg, or "none"
  \* ---- one call of run_numbered_tests ----
  rpc,              \* position of the runner
  group,            \* the numbered attribute names of the test entity
  hasSetup,         \* the entity has a setup (or setup_class)
  tdKind,           \* the entity's teardown: "none", "noop", "raise", "quit"
  initial, through, td, reload_module,
  todo,             \* the names the for loop has still to run
  events,           \* what the runner called, in order
  failed,           \* the step whose failure ended the run, or "none"
  preTdFailed,      \* the pre-run teardown raised (and was ignored)
  result,           \* the value returned to the caller
  \* ---- one call of Browser.retry_loop(counter, retry_hook) ----
  rl_pc,            \* "idle", "loop", "returned", "raised"
  attempts,         \* the counter argument
  counter,          \* the local counter
  hookFails,        \* retry_hook raises on its first hookFails calls
  hookKind,         \* the exception class retry_hook raises
  hookCalls,        \* how often retry_hook was called
  rl_result,        \* "value", or the exception class that left the call
  \* ---- one call of Browser.wait_until_ready ----
  rd_pc,            \* "idle", "poll", "returned", "raised"
  hostname, path,   \* of urlparse(self.current_url)
  flipAfter,        \* window.selenium_ready is false on that many polls
  ready_counter,    \* the local counter
  ready_result,     \* the local result
  polls,            \* how often the flag was read
  \* ---- one call of Browser.not_find / Browser.not_contains ----
  ab_pc,            \* "idle", "probe", "finally", "returned", "raised"
  ab_op,            \* "not_find" or "not_contains"
  ab_wait,          \* the wait argument
  default_wait,     \* Browser._default_wait
  implicit_wait,    \* the driver's implicit wait
  saved_wait,       \* the local default_wait
  absent,           \* the local absent
  ab_exc,           \* the exception in flight, or "none"
  waitBefore,       \* default_wait when the call was made
  ab_probe,         \* what the probe came to
  \* ---- one element lookup of a Browser ----
  lk_pc,            \* "idle", "gate", "driver"
  lk_op,            \* the Browser operation
  lk_out,           \* how the last lookup ended
  \* ---- one call of Browser.wait ----
  wt_pc,            \* "idle", "until", "returned", "raised"
  wt_args,          \* the positional arguments
  wt_secs,          \* the local secs
  wt_until,         \* the local until, or None
  wt_polled,        \* whether WebDriverWait.until was entered
  wt_result,        \* what the call returned or raised
  \* ---- one call b(val) of a Browser ----
  sh_pc,            \* "idle", "phase1", "phase2", "final", "returned", "raised"
  sh_val,           \* the argument: "none", "empty" or "selector"
  el,               \* the page's element for the selector
  sh_polls,         \* failed polls of the current wait
  sh_lookups,       \* lookups of the call that reached the driver
  seenPresent,      \* a poll of the first wait found the element
  seenDisplayed,    \* a poll of the second wait found it displayed
  sh_timeout,       \* a wait ran out of time
  sh_result,        \* what the call returned or raised
  el_id,            \* which element the page holds: the n-th it has held
  seenId,           \* the element the second wait found displayed
  sh_ret,           \* the handle returned: <<element, its state>>
  \* ---- Browser.login and Browser.logout ----
  username, password, email,   \* the identity stored on the Browser
  ac_op,            \* the last call: "none", "login" or "logout"
  ac_in,            \* what the call was given and what the page held
  ac_before,        \* the stored identity when the call was made
  ac_result,        \* "returned", or the exception the call raised
  \* ---- one call of Browser.contains ----
  ct_pc,            \* "idle", "direct", "fallback", "returned", "raised"
  ct_tag,           \* the tag argument
  ct_counter,       \* the counter of retry_loop
  ct_attempt,       \* which call of _do_it is running
  ct_log,           \* the queries sent so far, each with its outcome
  ct_result         \* "element", or the exception the call raised

sessVars == <<CURRENT_BROWSER, live, made, SECONDARY, ended, explicit>>
cfgVars  == <<cfgShots, envShots>>
wrapVars == <<wpc, callee, passed, quitDone, curAtEnter, madeAtEnter,
              curAtRaise, args, excOut, shotNote>>
runVars  == <<rpc, group, hasSetup, tdKind, initial, through, td,
              reload_module, todo, events, failed, preTdFailed, result>>

retryVars  == <<rl_pc, attempts, counter, hookFails, hookKind, hookCalls,
                rl_result>>
readyVars  == <<rd_pc, hostname, path, flipAfter, ready_counter,
                ready_result, polls>>
absentVars == <<ab_pc, ab_op, ab_wait, default_wait, implicit_wait,
                saved_wait, absent, ab_exc, waitBefore, ab_probe>>

lookupVars == <<lk_pc, lk_op, lk_out>>
waitVars   == <<wt_pc, wt_args, wt_secs, wt_until, wt_polled, wt_result>>
shortVars  == <<sh_pc, sh_val, el, sh_polls, sh_lookups, seenPresent,
                seenDisplayed, sh_timeout, sh_result, el_id, seenId,
                sh_ret>>
acctVars   == <<username, password, email, ac_op, ac_in, ac_before,
                ac_result>>
containsVars == <<ct_pc, ct_tag, ct_counter, ct_attempt, ct_log, ct_result>>
moreVars   == <<lookupVars, waitVars, shortVars, acctVars, containsVars>>
otherVars  == <<cfgVars, retryVars, readyVars, absentVars, moreVars>>

None == 0

(***************************************************************************)
(* Bounds of the model.                                                    *)
(***************************************************************************)
MaxSessions == 3
MaxOrd == 3
MaxAttempts == 3
MaxFails == 4
MaxFlip == 31
MaxWait == 2

(***************************************************************************)
(* Strings as sequences of character codes.                                *)
(***************************************************************************)
Min(a, b) == IF a < b THEN a ELSE b

\* Python's s[lo:hi] for 0 <= lo <= hi
Slice(s, lo, hi) ==
  IF lo >= Min(hi, Len(s)) THEN <<>> ELSE SubSeq(s, lo + 1, Min(hi, Len(s)))

\* Python's a < b on strings: lexicographic on the character codes
RECURSIVE StrLess(_, _)
StrLess(a, b) ==
  IF a = <<>> THEN b # <<>>
  ELSE IF b = <<>> THEN FALSE
  ELSE IF Head(a) # Head(b) THEN Head(a) < Head(b)
  ELSE StrLess(Tail(a), Tail(b))

\* sorted(names): ascending in Python's string order
RECURSIVE Sorted(_)
Sorted(S) ==
  IF S = {} THEN <<>>
  ELSE LET m == CHOOSE x \in S : \A y \in S \ {x} : StrLess(x, y)
       IN  <<m>> \o Sorted(S \ {m})

\* '%02d' % i for 0 <= i <= 99
Fmt02(i) == <<48 + (i \div 10), 48 + (i % 10)>>

n_test_01  == <<116, 101, 115, 116, 95, 48, 49>>          \* "test_01"
n_test_02  == <<116, 101, 115, 116, 95, 48, 50>>          \* "test_02"
n_test_03  == <<116, 101, 115, 116, 95, 48, 51>>          \* "test_03"
n_Test_02  == <<84, 101, 115, 116, 95, 48, 50>>           \* "Test_02"
n_test_1_a == <<116, 101, 115, 116, 95, 49, 95, 97>>      \* "test_1_a"
n_setup    == <<115, 101, 116, 117, 112>>                 \* "setup"
n_teardown == <<116, 101, 97, 114, 100, 111, 119, 110>>   \* "teardown"

\* the attribute names a test entity may define besides setup and teardown
NamePool == {n_test_01, n_test_02, n_test_03, n_Test_02, n_test_1_a}

TeardownKinds == {"none", "noop", "raise", "quit"}

(***************************************************************************)
(* The shared session: Browser.quit and the autobrowser wrapper.           *)
(***************************************************************************)
\* Python truth of Browser.SECONDARY (None, False or True)
Truthy(v) == v = "True"

\* (a quit that shuts the driver down before it clears the global)
QuitDriverFirst(b, driverOk) ==
  /\ CURRENT_BROWSER' = IF driverOk /\ ~Truthy(SECONDARY[b])
                        THEN None ELSE CURRENT_BROWSER
  /\ live' = IF driverOk THEN live \ {b} ELSE live
  /\ ended' = ended \cup {b}
  /\ UNCHANGED <<made, SECONDARY, explicit>>

\* Browser.quit on Browser b; driverOk: self._driver.quit() does not raise
Quit(b, driverOk) ==
  /\ CURRENT_BROWSER' = IF ~Truthy(SECONDARY[b]) THEN None ELSE CURRENT_BROWSER
  /\ live' = IF driverOk THEN live \ {b} ELSE live
  /\ ended' = ended \cup {b}
  /\ UNCHANGED <<made, SECONDARY, explicit>>

\* get_browser(secondary=sec) returning: a new Browser with a new driver
GetBrowser(sec) ==
  /\ made < MaxSessions
  /\ made' = made + 1
  /\ live' = live \cup {made + 1}
  /\ SECONDARY' = [i \in 1..(made + 1) |->
                     IF i = made + 1 THEN sec ELSE SECONDARY[i]]

\* if not CURRENT_BROWSER
NeedsBrowser == CURRENT_BROWSER = None

\* an argument that is no Browser: the test entity a method is bound to
TestEntity == 0 - 1

\* isinstance(arg, Browser)
IsBrowser(arg) == arg \in 1..made

\* has_browser: some positional argument is a Browser
HasBrowser(a) == \E i \in 1..Len(a) : IsBrowser(a[i])

\* the positional arguments func is called with
FuncArgs(a) == IF HasBrowser(a) THEN a ELSE <<CURRENT_BROWSER'>> \o a

\* autobrowser.wrapper up to the call of func.  With a Browser among the
\* arguments func gets the arguments as they are.  Otherwise the shared
\* Browser is put in front of them, and created first when absent:
\* get_browser() may raise (nothing is created), and maximize() may raise
\* after CURRENT_BROWSER was set.  The test functions name their first
\* parameter b: `passed` is what it is bound to.
WrapperEnter ==
  /\ wpc = "call"
  /\ curAtEnter' = CURRENT_BROWSER
  /\ madeAtEnter' = made
  /\ \/ /\ HasBrowser(args)
        /\ UNCHANGED sessVars
        /\ passed' = FuncArgs(args)[1]
        /\ wpc' = "body"
        /\ UNCHANGED <<curAtRaise, excOut>>
     \/ /\ ~HasBrowser(args)
        /\ ~NeedsBrowser
        /\ UNCHANGED sessVars
        /\ passed' = FuncArgs(args)[1]
        /\ wpc' = "body"
        /\ UNCHANGED <<curAtRaise, excOut>>
     \/ /\ ~HasBrowser(args)
        /\ NeedsBrowser
        /\ GetBrowser("False")
        /\ CURRENT_BROWSER' = made + 1
        /\ UNCHANGED <<ended, explicit>>
        /\ \/ /\ passed' = FuncArgs(args)[1]
              /\ wpc' = "body"
              /\ UNCHANGED <<curAtRaise, excOut>>
           \/ /\ passed' = None
              /\ wpc' = "exc"
              /\ curAtRaise' = made + 1
              /\ excOut' = "launch"
     \/ /\ ~HasBrowser(args)
        /\ NeedsBrowser
        /\ passed' = None
        /\ wpc' = "exc"
        /\ curAtRaise' = CURRENT_BROWSER
        /\ excOut' = "launch"
        /\ UNCHANGED sessVars
  /\ UNCHANGED <<callee, quitDone, args, shotNote>>
  /\ UNCHANGED runVars
  /\ UNCHANGED otherVars

\* where an exception e raised by func goes: `return func(*args, **kwargs)`
\* is outside the try statement, `return func(CURRENT_BROWSER, ...)` inside
AfterRaise(a) == IF HasBrowser(a) THEN "exc" ELSE "caught"

\* the decorated function calls b.quit() on what its parameter b is bound
\* to; a failing driver quit is an exception e raised by func
BodyQuit ==
  /\ wpc = "body"
  /\ ~quitDone
  /\ IsBrowser(passed)
  /\ \E driverOk \in BOOLEAN :
       /\ Quit(passed, driverOk)
       /\ wpc' = IF driverOk THEN "body" ELSE AfterRaise(args)
  /\ quitDone' = TRUE
  /\ curAtRaise' = IF wpc' = "body" THEN curAtRaise ELSE CURRENT_BROWSER'
  /\ excOut' = IF wpc' = "exc" THEN "e" ELSE excOut
  /\ UNCHANGED <<callee, passed, curAtEnter, madeAtEnter, args, shotNote>>
  /\ UNCHANGED runVars
  /\ UNCHANGED otherVars

\* the decorated function returns (teardown_class: after its b.quit())
BodyReturn ==
  /\ wpc = "body"
  /\ callee = "teardown" => quitDone
  /\ wpc' = "ret"
  /\ UNCHANGED <<callee, passed, quitDone, curAtEnter, madeAtEnter,
                 curAtRaise, args, excOut, shotNote>>
  /\ UNCHANGED sessVars
  /\ UNCHANGED runVars
  /\ UNCHANGED otherVars

\* the decorated test raises an exception e
BodyRaise ==
  /\ wpc = "body"
  /\ callee = "test"
  /\ wpc' = AfterRaise(args)
  /\ curAtRaise' = CURRENT_BROWSER
  /\ excOut' = IF wpc' = "exc" THEN "e" ELSE excOut
  /\ UNCHANGED <<callee, passed, quitDone, curAtEnter, madeAtEnter, args,
                 shotNote>>
  /\ UNCHANGED sessVars
  /\ UNCHANGED runVars
  /\ UNCHANGED otherVars

\* (a wrapper that looks at the configuration module alone)
ShotsEnabledByCfg == cfgShots

\* getattr(selenium_cfg, 'SELENIUM_SCREENSHOTS', False)
\*   and os.getenv('SELENIUM_SCREENSHOTS') == 'true'
ShotsEnabled == cfgShots /\ envShots

\* how the screenshot attempt can end: a directory cannot be made, the
\* capture raises, or the image is saved.  CURRENT_BROWSER._driver of None
\* raises, and so does the capture by a driver that was shut down.
ShotOutcomes ==
  {"mkdir_fails", "capture_fails"}
    \cup (IF CURRENT_BROWSER # None /\ CURRENT_BROWSER \in live
          THEN {"saved"} ELSE {})

\* the bare `raise` that ends the except clause.  The code is Python 2
\* (print statements, reload, long): there a bare raise re-raises the
\* exception handled last in the frame, which is the screenshot's failure
\* once the inner `except:` has handled one.
BareRaise(shot) == IF shot \in {"mkdir_fails", "capture_fails"}
                   THEN "shot" ELSE "e"

\* what the except clause appended to e.msg
Note(shot) == CASE shot = "saved" -> "screenshot"
                [] shot \in {"mkdir_fails", "capture_fails"} -> "failed"
                [] OTHER -> "none"

\* the except clause of autobrowser.wrapper: the screenshot attempt when it
\* is enabled, then the bare raise
WrapperExcept ==
  /\ wpc = "caught"
  /\ \E shot \in (IF ShotsEnabled THEN ShotOutcomes ELSE {"off"}) :
       /\ shotNote' = Note(shot)
       /\ excOut' = BareRaise(shot)
  /\ wpc' = "exc"
  /\ UNCHANGED <<callee, passed, quitDone, curAtEnter, madeAtEnter, args,
                 curAtRaise>>
  /\ UNCHANGED sessVars
  /\ UNCHANGED runVars
  /\ UNCHANGED otherVars

\* the caller starts a call of a decorated function with the positional
\* arguments a
StartCall(what, a) ==
  /\ wpc' = "call"
  /\ callee' = what
  /\ args' = a
  /\ passed' = None
  /\ quitDone' = FALSE
  /\ excOut' = "none"
  /\ shotNote' = "none"
  /\ UNCHANGED <<curAtEnter, madeAtEnter, curAtRaise>>

\* the caller has seen the call's outcome
EndCall ==
  /\ wpc' = "idle"
  /\ UNCHANGED <<callee, passed, quitDone, curAtEnter, madeAtEnter,
                 curAtRaise, args, excOut, shotNote>>

InitSess ==
  /\ CURRENT_BROWSER = None
  /\ live = {}
  /\ made = 0
  /\ SECONDARY = <<>>
  /\ ended = {}
  /\ explicit = {}

\* the repository's selenium_cfg.py turns screenshots off
InitCfg ==
  /\ cfgShots = FALSE
  /\ envShots = FALSE

InitWrap ==
  /\ wpc = "idle"
  /\ callee = "test"
  /\ passed = None
  /\ quitDone = FALSE
  /\ curAtEnter = None
  /\ madeAtEnter = 0
  /\ curAtRaise = None
  /\ args = <<>>
  /\ excOut = "none"
  /\ shotNote = "none"

(***************************************************************************)
(* Auto-managed calls and quit() made one after another at the shell.      *)
(***************************************************************************)
\* a decorated test is called without a Browser argument
ShellCall ==
  /\ wpc = "idle"
  /\ StartCall("test", <<>>)
  /\ UNCHANGED sessVars
  /\ UNCHANGED runVars
  /\ UNCHANGED otherVars

\* the call returned or raised
ShellDone ==
  /\ wpc \in {"ret", "exc"}
  /\ EndCall
  /\ UNCHANGED sessVars
  /\ UNCHANGED runVars
  /\ UNCHANGED otherVars

\* CURRENT_BROWSER.quit() between two calls
ShellQuit ==
  /\ wpc = "idle"
  /\ CURRENT_BROWSER # None
  /\ \E driverOk \in BOOLEAN : Quit(CURRENT_BROWSER, driverOk)
  /\ UNCHANGED wrapVars
  /\ UNCHANGED runVars
  /\ UNCHANGED otherVars

(***************************************************************************)
(* Sessions a caller constructs itself.                                    *)
(***************************************************************************)
\* how many sessions the caller constructs
MaxExplicit == 1

\* the values of SECONDARY a constructed Browser can have: the class
\* attribute None after Browser(driver), the argument after get_browser
SecondaryValues == {"None", "False", "True"}

\* browser = get_browser(secondary=sec), or Browser(driver=...) for "None",
\* between two calls: a new Browser with a new driver that CURRENT_BROWSER
\* is not set to
ExplicitCreate ==
  /\ wpc = "idle"
  /\ Cardinality(explicit) < MaxExplicit
  /\ \E sec \in SecondaryValues : GetBrowser(sec)
  /\ explicit' = explicit \cup {made + 1}
  /\ UNCHANGED <<CURRENT_BROWSER, ended>>
  /\ UNCHANGED wrapVars
  /\ UNCHANGED runVars
  /\ UNCHANGED otherVars

\* browser.quit() on a Browser the caller constructed, between two calls
ExplicitQuit ==
  /\ wpc = "idle"
  /\ \E b \in explicit \ ended : \E driverOk \in BOOLEAN : Quit(b, driverOk)
  /\ UNCHANGED wrapVars
  /\ UNCHANGED runVars
  /\ UNCHANGED otherVars


\* a decorated test is called with positional arguments: a Browser the
\* caller constructed (a module-level function), the instance alone (a
\* TestClass method), or the instance and a Browser (a method given one)
ShellCallWith ==
  /\ wpc = "idle"
  /\ \E a \in {<<TestEntity>>} \cup {<<b>> : b \in explicit}
                \cup {<<TestEntity, b>> : b \in explicit} :
       StartCall("test", a)
  /\ UNCHANGED sessVars
  /\ UNCHANGED runVars
  /\ UNCHANGED otherVars

\* the configuration and the environment are set before tests are run
Configure ==
  /\ wpc = "idle"
  /\ \E c \in BOOLEAN : \E v \in BOOLEAN :
       /\ cfgShots' = c
       /\ envShots' = v
  /\ UNCHANGED <<sessVars, wrapVars, runVars, retryVars, readyVars,
                 absentVars, moreVars>>

(***************************************************************************)
(* run_numbered_tests.                                                     *)
(***************************************************************************)
\* dir(test_entity), as far as the runner can tell the names apart
Dir == group \cup (IF hasSetup THEN {n_setup} ELSE {})
             \cup (IF tdKind # "none" THEN {n_teardown} ELSE {})

\* (a range that leaves `through` out)
SelectedExclusive(names, lo, hi) ==
  SelectSeq(Sorted(names),
            LAMBDA n : Slice(n, 5, 7) \in {Fmt02(i) : i \in lo..(hi - 1)})

\* the names the for loop runs, in its order:
\* name for name in sorted(dir(test_entity))
\*   if name[5:7] in ['%02d' % i for i in range(initial, through + 1)]
Selected(names, lo, hi) ==
  SelectSeq(Sorted(names),
            LAMBDA n : Slice(n, 5, 7) \in {Fmt02(i) : i \in lo..hi})

Ev(kind, name) == [k |-> kind, n |-> name]

InitRunVars ==
  /\ rpc = "idle"
  /\ group = {}
  /\ hasSetup = FALSE
  /\ tdKind = "none"
  /\ initial = 0
  /\ through = 0
  /\ td = TRUE
  /\ reload_module = TRUE
  /\ todo = <<>>
  /\ events = <<>>
  /\ failed = "none"
  /\ preTdFailed = FALSE
  /\ result = None

\* run_numbered_tests(module, initial, through, td, reload_module) is called
RunCall ==
  /\ rpc = "idle"
  /\ group' \in SUBSET NamePool
  /\ hasSetup' \in BOOLEAN
  /\ tdKind' \in TeardownKinds
  /\ initial' \in 0..MaxOrd
  /\ through' \in 0..MaxOrd
  /\ td' \in BOOLEAN
  /\ reload_module' \in BOOLEAN
  /\ rpc' = "pre_td"
  /\ UNCHANGED <<todo, events, failed, preTdFailed, result>>
  /\ UNCHANGED wrapVars
  /\ UNCHANGED sessVars
  /\ UNCHANGED otherVars

\* (a runner that lets the failure of the pre-run teardown out)
AfterPrePropagates(raised) == IF raised THEN "raised" ELSE "setup"

\* except: pass -- whether or not the pre-run teardown raised, the
\* statement after the try is next
AfterPre(raised) == "setup"

\* if td: try: test_entity.teardown() except: pass
\* (an entity without teardown: the attribute lookup raises)
PreTeardown ==
  /\ rpc = "pre_td"
  /\ \/ /\ ~td
        /\ rpc' = "setup"
        /\ UNCHANGED <<events, preTdFailed>>
        /\ UNCHANGED wrapVars
     \/ /\ td /\ tdKind = "none"
        /\ preTdFailed' = TRUE
        /\ rpc' = AfterPre(preTdFailed')
        /\ UNCHANGED events
        /\ UNCHANGED wrapVars
     \/ /\ td /\ tdKind \in {"noop", "raise"}
        /\ preTdFailed' = (tdKind = "raise")
        /\ rpc' = AfterPre(preTdFailed')
        /\ events' = Append(events, Ev("td_pre", <<>>))
        /\ UNCHANGED wrapVars
     \/ /\ td /\ tdKind = "quit"
        /\ rpc' = "in_pre_td"
        /\ events' = Append(events, Ev("td_pre", <<>>))
        /\ StartCall("teardown", <<TestEntity>>)
        /\ UNCHANGED preTdFailed
  /\ UNCHANGED <<group, hasSetup, tdKind, initial, through, td,
                 reload_module, todo, failed, result>>
  /\ UNCHANGED sessVars
  /\ UNCHANGED otherVars

\* the decorated teardown_class returned or raised: except: pass
AfterPreTeardown ==
  /\ rpc = "in_pre_td"
  /\ wpc \in {"ret", "exc"}
  /\ preTdFailed' = (wpc = "exc")
  /\ rpc' = AfterPre(preTdFailed')
  /\ EndCall
  /\ UNCHANGED <<group, hasSetup, tdKind, initial, through, td,
                 reload_module, todo, events, failed, result>>
  /\ UNCHANGED sessVars
  /\ UNCHANGED otherVars

\* (a runner that calls setup wherever the run starts)
RunsSetupAlways == hasSetup

\* if initial == 0 and getattr(test_entity, 'setup', False)
RunsSetup == initial = 0 /\ hasSetup

\* test_entity.setup() when RunsSetup, outside any try; then the generator
\* of the for loop is built
Setup ==
  /\ rpc = "setup"
  /\ \/ /\ RunsSetup
        /\ events' = Append(events, Ev("setup", <<>>))
        /\ \/ /\ rpc' = "loop"
              /\ todo' = Selected(Dir, initial, through)
              /\ UNCHANGED failed
           \/ /\ rpc' = "raised"
              /\ failed' = "setup"
              /\ UNCHANGED todo
     \/ /\ ~RunsSetup
        /\ rpc' = "loop"
        /\ todo' = Selected(Dir, initial, through)
        /\ UNCHANGED <<events, failed>>
  /\ UNCHANGED <<group, hasSetup, tdKind, initial, through, td,
                 reload_module, preTdFailed, result>>
  /\ UNCHANGED wrapVars
  /\ UNCHANGED sessVars
  /\ UNCHANGED otherVars

\* for test in ...: print "Running", test.func_name; test()
InvokeTest ==
  /\ rpc = "loop"
  /\ todo # <<>>
  /\ events' = Append(events, Ev("test", Head(todo)))
  /\ rpc' = "in_test"
  /\ StartCall("test", <<TestEntity>>)
  /\ UNCHANGED <<group, hasSetup, tdKind, initial, through, td,
                 reload_module, todo, failed, preTdFailed, result>>
  /\ UNCHANGED sessVars
  /\ UNCHANGED otherVars

\* (a loop that catches a test's failure and goes on)
AfterTestContinues(outcome) == "loop"

\* (a loop whose try does not hold the call of the test)
AfterTestPropagates(outcome) == IF outcome = "exc" THEN "raised" ELSE "loop"

\* where the runner goes after test(): on with the loop, or to the except
\* and finally clauses that end the try statement
AfterTest(outcome) == IF outcome = "exc" THEN "finally" ELSE "loop"

\* test() returned or raised (except: traceback.print_exc())
TestDone ==
  /\ rpc = "in_test"
  /\ wpc \in {"ret", "exc"}
  /\ todo' = Tail(todo)
  /\ failed' = IF wpc = "exc" THEN "test" ELSE failed
  /\ rpc' = AfterTest(wpc)
  /\ EndCall
  /\ UNCHANGED <<group, hasSetup, tdKind, initial, through, td,
                 reload_module, events, preTdFailed, result>>
  /\ UNCHANGED sessVars
  /\ UNCHANGED otherVars

\* (a runner without a final teardown)
RunsFinalTeardownNever == FALSE

\* if td and getattr(test_entity, 'teardown', False)
RunsFinalTeardown == td /\ tdKind # "none"

\* after the loop: test_entity.teardown() when RunsFinalTeardown, inside
\* the try
FinalTeardown ==
  /\ rpc = "loop"
  /\ todo = <<>>
  /\ \/ /\ ~RunsFinalTeardown
        /\ rpc' = "finally"
        /\ UNCHANGED <<events, failed>>
        /\ UNCHANGED wrapVars
     \/ /\ RunsFinalTeardown /\ tdKind \in {"noop", "raise"}
        /\ events' = Append(events, Ev("td_final", <<>>))
        /\ failed' = IF tdKind = "raise" /\ failed = "none"
                     THEN "td_final" ELSE failed
        /\ rpc' = "finally"
        /\ UNCHANGED wrapVars
     \/ /\ RunsFinalTeardown /\ tdKind = "quit"
        /\ events' = Append(events, Ev("td_final", <<>>))
        /\ rpc' = "in_final_td"
        /\ StartCall("teardown", <<TestEntity>>)
        /\ UNCHANGED failed
  /\ UNCHANGED <<group, hasSetup, tdKind, initial, through, td,
                 reload_module, todo, preTdFailed, result>>
  /\ UNCHANGED sessVars
  /\ UNCHANGED otherVars

\* the decorated teardown_class returned or raised (except: print_exc())
AfterFinalTeardown ==
  /\ rpc = "in_final_td"
  /\ wpc \in {"ret", "exc"}
  /\ failed' = IF wpc = "exc" /\ failed = "none" THEN "td_final" ELSE failed
  /\ rpc' = "finally"
  /\ EndCall
  /\ UNCHANGED <<group, hasSetup, tdKind, initial, through, td,
                 reload_module, todo, events, preTdFailed, result>>
  /\ UNCHANGED sessVars
  /\ UNCHANGED otherVars

\* finally: ... return CURRENT_BROWSER
Return ==
  /\ rpc = "finally"
  /\ result' = CURRENT_BROWSER
  /\ rpc' = "returned"
  /\ UNCHANGED <<group, hasSetup, tdKind, initial, through, td,
                 reload_module, todo, events, failed, preTdFailed>>
  /\ UNCHANGED wrapVars
  /\ UNCHANGED sessVars
  /\ UNCHANGED otherVars

(***************************************************************************)
(* Browser.retry_loop.                                                     *)
(***************************************************************************)
\* the exception classes a retry_hook is taken to raise
ExcKinds == {"WebDriverException", "TimeoutException",
             "StaleElementReferenceException", "NoSuchElementException",
             "AssertionError", "TypeError"}

\* the base class of each: the selenium classes derive from
\* WebDriverException, the builtin ones from Exception
BaseOf(kind) ==
  IF kind \in {"TimeoutException", "StaleElementReferenceException",
               "NoSuchElementException"}
  THEN "WebDriverException" ELSE "Exception"

\* (an except clause that matches the named classes only, not subclasses)
CaughtNamedOnly(kind) ==
  kind \in {"WebDriverException", "TimeoutException",
            "StaleElementReferenceException", "AssertionError"}

\* except (WebDriverException, TimeoutException,
\*         StaleElementReferenceException, AssertionError)
Caught(kind) ==
  LET named == {"WebDriverException", "TimeoutException",
                "StaleElementReferenceException", "AssertionError"}
  IN  kind \in named \/ BaseOf(kind) \in named


\* (a loop that goes on until the counter is exactly one)
LoopsAgainNotOne(c) == c # 1

\* (a loop that goes round once more)
LoopsAgainAtOne(c) == c > 0

\* while counter > 1
LoopsAgain(c) == c > 1

InitRetryVars ==
  /\ rl_pc = "idle"
  /\ attempts = 1
  /\ counter = 1
  /\ hookFails = 0
  /\ hookKind = "WebDriverException"
  /\ hookCalls = 0
  /\ rl_result = "none"

\* retry_loop(n, hook) is called, with a hook that raises exception kind e
\* on its first k calls and returns a value from then on
RetryCall ==
  /\ rl_pc = "idle"
  /\ attempts' \in (0 - 1)..MaxAttempts
  /\ hookFails' \in 0..MaxFails
  /\ hookKind' \in ExcKinds
  /\ counter' = attempts'
  /\ hookCalls' = 0
  /\ rl_pc' = "loop"
  /\ UNCHANGED rl_result
  /\ UNCHANGED <<sessVars, cfgVars, wrapVars, runVars, readyVars, absentVars,
                 moreVars>>

\* one round of the while loop: try: return retry_hook()
\* except (...): time.sleep(0.5); counter -= 1
RetryRound ==
  /\ rl_pc = "loop"
  /\ LoopsAgain(counter)
  /\ hookCalls' = hookCalls + 1
  /\ IF hookCalls' > hookFails
     THEN /\ rl_pc' = "returned"
          /\ rl_result' = "value"
          /\ UNCHANGED counter
     ELSE IF Caught(hookKind)
     THEN /\ counter' = counter - 1
          /\ UNCHANGED <<rl_pc, rl_result>>
     ELSE /\ rl_pc' = "raised"
          /\ rl_result' = hookKind
          /\ UNCHANGED counter
  /\ UNCHANGED <<attempts, hookFails, hookKind>>
  /\ UNCHANGED <<sessVars, cfgVars, wrapVars, runVars, readyVars, absentVars,
                 moreVars>>

\* after the loop: return retry_hook()
RetryLast ==
  /\ rl_pc = "loop"
  /\ ~LoopsAgain(counter)
  /\ hookCalls' = hookCalls + 1
  /\ IF hookCalls' > hookFails
     THEN rl_pc' = "returned" /\ rl_result' = "value"
     ELSE rl_pc' = "raised" /\ rl_result' = hookKind
  /\ UNCHANGED <<attempts, counter, hookFails, hookKind>>
  /\ UNCHANGED <<sessVars, cfgVars, wrapVars, runVars, readyVars, absentVars,
                 moreVars>>

(***************************************************************************)
(* Browser.wait_until_ready.                                               *)
(***************************************************************************)
s_dot_about_me == <<46, 97, 98, 111, 117, 116, 46, 109, 101>>  \* ".about.me"
s_about_me     == <<97, 98, 111, 117, 116, 46, 109, 101>>      \* "about.me"
s_www_about_me == <<119, 119, 119>> \o s_dot_about_me      \* "www.about.me"
s_localhost    == <<49, 50, 55, 46, 48, 46, 48, 46, 49>>       \* "127.0.0.1"
s_example_com  == <<101, 120, 97, 109, 112, 108, 101, 46, 99, 111, 109>>
s_content      == <<47, 99, 111, 110, 116, 101, 110, 116, 47>> \* "/content/"
s_root         == <<47>>                                       \* "/"
s_login        == <<47, 108, 111, 103, 105, 110>>              \* "/login"

Hostnames == {s_about_me, s_www_about_me, s_localhost, s_example_com}
Paths == {s_root, s_login, s_content \o <<97>>}

\* Python's t.startswith(s)
StartsWith(t, s) == Len(s) <= Len(t) /\ SubSeq(t, 1, Len(s)) = s

\* Python's a or b on strings: a unless it is empty
PyOr(a, b) == IF a # <<>> THEN a ELSE b

\* Python's s in t
Contains(t, s) ==
  \E i \in 0..(Len(t) - Len(s)) : SubSeq(t, i + 1, i + Len(s)) = s

\* ('.about.me' or '127.0.0.1') in u.hostname
\*   and not u.path.startswith('/content/')
\* (the or of two non-empty strings is the first of them)
Gated(host, p) ==
  /\ Contains(host, PyOr(s_dot_about_me, s_localhost))
  /\ ~StartsWith(p, s_content)

ReadyPolls == 30

\* (a loop that goes round once more)
PollsAgainAtZero(c) == c >= 0

\* while (counter > 0)
PollsAgain(c) == c > 0

InitReadyVars ==
  /\ rd_pc = "idle"
  /\ hostname = s_www_about_me
  /\ path = s_root
  /\ flipAfter = 0
  /\ ready_counter = 0
  /\ ready_result = FALSE
  /\ polls = 0

\* wait_until_ready() is called on some page of some application; the
\* page's window.selenium_ready reads false flipAfter times, then true
ReadyCall ==
  /\ rd_pc = "idle"
  /\ hostname' \in Hostnames
  /\ path' \in Paths
  /\ flipAfter' \in 0..MaxFlip
  /\ polls' = 0
  /\ IF Gated(hostname', path')
     THEN /\ ready_counter' = ReadyPolls
          /\ ready_result' = FALSE
          /\ rd_pc' = "poll"
     ELSE /\ rd_pc' = "returned"
          /\ UNCHANGED <<ready_counter, ready_result>>
  /\ UNCHANGED <<sessVars, cfgVars, wrapVars, runVars, retryVars, absentVars,
                 moreVars>>

\* one round of the loop: result = execute_script(...); if (result): break;
\* counter = counter - 1; time.sleep(.1)
ReadyPoll ==
  /\ rd_pc = "poll"
  /\ PollsAgain(ready_counter)
  /\ polls' = polls + 1
  /\ ready_result' = (polls >= flipAfter)
  /\ IF ready_result'
     THEN rd_pc' = "assert" /\ UNCHANGED ready_counter
     ELSE ready_counter' = ready_counter - 1 /\ UNCHANGED rd_pc
  /\ UNCHANGED <<hostname, path, flipAfter>>
  /\ UNCHANGED <<sessVars, cfgVars, wrapVars, runVars, retryVars, absentVars,
                 moreVars>>

\* the loop is left: assert result, "window.selenium_ready wasn't true"
ReadyAssert ==
  /\ \/ rd_pc = "assert"
     \/ rd_pc = "poll" /\ ~PollsAgain(ready_counter)
  /\ rd_pc' = IF ready_result THEN "returned" ELSE "raised"
  /\ UNCHANGED <<hostname, path, flipAfter, ready_counter, ready_result,
                 polls>>
  /\ UNCHANGED <<sessVars, cfgVars, wrapVars, runVars, retryVars, absentVars,
                 moreVars>>

(***************************************************************************)
(* Browser.not_find and Browser.not_contains.                              *)
(***************************************************************************)
DefaultWait == 10

WaitValues == 0..MaxWait \cup {DefaultWait}

\* what the probe between try and finally can come to.  not_contains looks
\* up through self.xpath, behind wait_until_ready, whose assert may fail;
\* not_find calls the driver's find_element_by_css_selector.
ProbeOutcomes(op) ==
  {"displayed", "hidden", "NoSuchElementException",
   "StaleElementReferenceException", "WebDriverException"}
    \cup (IF op = "not_contains" THEN {"AssertionError"} ELSE {})


\* (a bare except, which takes every failure of the probe for absence)
HandledAny(o) == o \notin {"displayed", "hidden"}

\* except NoSuchElementException
Handled(o) == o = "NoSuchElementException"

\* (a restore written after the try statement instead of in a finally)
RestoresAfterTry(exc) == exc = "none"

\* finally: the restore runs whatever the try block came to
Restores(exc) == TRUE

InitAbsentVars ==
  /\ ab_pc = "idle"
  /\ ab_op = "not_find"
  /\ ab_wait = 1
  /\ default_wait = DefaultWait
  /\ implicit_wait = DefaultWait
  /\ saved_wait = DefaultWait
  /\ absent = FALSE
  /\ ab_exc = "none"
  /\ waitBefore = DefaultWait
  /\ ab_probe = "none"

\* the default_wait setter: browser.default_wait = value sets
\* _default_wait and sends implicitly_wait(value), which the driver is
\* taken to accept
SetDefaultWait ==
  /\ ab_pc = "idle"
  /\ \E value \in WaitValues :
       /\ default_wait' = value
       /\ implicit_wait' = value
  /\ UNCHANGED <<ab_pc, ab_op, ab_wait, saved_wait, absent, ab_exc,
                 waitBefore, ab_probe>>
  /\ UNCHANGED <<sessVars, cfgVars, wrapVars, runVars, retryVars, readyVars,
                 moreVars>>

\* not_find(selector, wait) / not_contains(text, tag, wait) up to the try:
\* absent = False; default_wait = self.default_wait; self.default_wait = wait
AbsentCall ==
  /\ ab_pc \in {"idle", "returned", "raised"}
  /\ ab_op' \in {"not_find", "not_contains"}
  /\ ab_wait' \in WaitValues
  /\ waitBefore' = default_wait
  /\ absent' = FALSE
  /\ saved_wait' = default_wait
  /\ default_wait' = ab_wait'
  /\ implicit_wait' = ab_wait'
  /\ ab_exc' = "none"
  /\ ab_probe' = "none"
  /\ ab_pc' = "probe"
  /\ UNCHANGED <<sessVars, cfgVars, wrapVars, runVars, retryVars, readyVars,
                 moreVars>>

\* try: absent = not <lookup>.is_displayed()
\* except NoSuchElementException: absent = True
AbsentProbe ==
  /\ ab_pc = "probe"
  /\ \E o \in ProbeOutcomes(ab_op) :
       /\ ab_probe' = o
       /\ absent' = CASE o = "displayed" -> FALSE
                      [] o = "hidden" -> TRUE
                      [] Handled(o) -> TRUE
                      [] OTHER -> absent
       /\ ab_exc' = IF o \in {"displayed", "hidden"} \/ Handled(o)
                    THEN "none" ELSE o
  /\ ab_pc' = "finally"
  /\ UNCHANGED <<ab_op, ab_wait, default_wait, implicit_wait, saved_wait,
                 waitBefore>>
  /\ UNCHANGED <<sessVars, cfgVars, wrapVars, runVars, retryVars, readyVars,
                 moreVars>>

\* finally: self.default_wait = default_wait; then return absent, or the
\* exception goes on to the caller
AbsentFinally ==
  /\ ab_pc = "finally"
  /\ IF Restores(ab_exc)
     THEN default_wait' = saved_wait /\ implicit_wait' = saved_wait
     ELSE UNCHANGED <<default_wait, implicit_wait>>
  /\ ab_pc' = IF ab_exc = "none" THEN "returned" ELSE "raised"
  /\ UNCHANGED <<ab_op, ab_wait, saved_wait, absent, ab_exc, waitBefore,
                 ab_probe>>
  /\ UNCHANGED <<sessVars, cfgVars, wrapVars, runVars, retryVars, readyVars,
                 moreVars>>


(***************************************************************************)
(* The element lookups of a Browser and the readiness gate.                *)
(***************************************************************************)
\* the selector shortcut properties, each the driver's find_element_by_*
\* behind _wait_until_ready_wrapper
Strategies == {"class_name", "css_selector", "id", "link_text", "name",
               "partial_link_text", "tag_name", "xpath"}

\* the lookups: find(val, b.<strategy>) named by its strategy, find(val),
\* b(val), contains, not_contains and not_find
LookupOps == Strategies \cup {"find", "shorthand", "contains",
                              "not_contains", "not_find"}

\* the attribute of the Browser an operation looks the element up with
Route(op) ==
  CASE op \in Strategies -> op
    [] op \in {"find", "shorthand"} -> "css_selector"
    [] op \in {"contains", "not_contains"} -> "xpath"
    [] op = "not_find" -> "find_element_by_css_selector"

\* __getattribute__: an attribute the driver has and the Browser lacks is
\* the driver's own, with no wrapper around it
Proxied(attr) == attr \notin Strategies

\* an operation is called; a wrapped attribute calls wait_until_ready()
\* first, a proxied one is the driver's method itself
LookupCall ==
  /\ lk_pc = "idle"
  /\ lk_out = "none"
  /\ lk_op' \in LookupOps
  /\ lk_pc' = IF Proxied(Route(lk_op')) THEN "driver" ELSE "gate"
  /\ UNCHANGED lk_out
  /\ UNCHANGED <<sessVars, cfgVars, wrapVars, runVars, retryVars, readyVars,
                 absentVars, waitVars, shortVars, acctVars,
                 containsVars>>

\* inner: self.wait_until_ready()
LookupGate ==
  /\ lk_pc = "gate"
  /\ ReadyCall

\* inner: wait_until_ready() returned, func(*args, **kwargs) is called; or
\* its assertion failed and no lookup is made
LookupForward ==
  /\ lk_pc = "gate"
  /\ rd_pc \in {"returned", "raised"}
  /\ IF rd_pc = "returned"
     THEN lk_pc' = "driver" /\ UNCHANGED lk_out
     ELSE lk_pc' = "idle" /\ lk_out' = "AssertionError"
  /\ UNCHANGED <<lk_op, rd_pc, hostname, path, flipAfter, ready_counter,
                 ready_result, polls>>
  /\ UNCHANGED <<sessVars, cfgVars, wrapVars, runVars, retryVars, absentVars,
                 waitVars, shortVars, acctVars, containsVars>>

\* the driver's find_element_by_*: an element or NoSuchElementException
LookupDriver ==
  /\ lk_pc = "driver"
  /\ lk_out' \in {"element", "NoSuchElementException"}
  /\ lk_pc' = "idle"
  /\ rd_pc' = "idle"
  /\ UNCHANGED <<lk_op, hostname, path, flipAfter, ready_counter,
                 ready_result, polls>>
  /\ UNCHANGED <<sessVars, cfgVars, wrapVars, runVars, retryVars, absentVars,
                 waitVars, shortVars, acctVars, containsVars>>

InitLookupVars ==
  /\ lk_pc = "idle"
  /\ lk_op = "find"
  /\ lk_out = "none"


(***************************************************************************)
(* Browser.wait.                                                           *)
(***************************************************************************)
\* how many positional arguments a call of wait is given
MaxArgs == 3

\* the arguments a call may be given: two numbers of seconds, two callables
\* and something that is neither
WaitArgValues ==
  {[k |-> "num", v |-> 3], [k |-> "num", v |-> 7],
   [k |-> "callable", v |-> 1], [k |-> "callable", v |-> 2],
   [k |-> "other", v |-> 0]}

\* (a check that allows one argument only)
TooManyAtTwo(a) == Len(a) > 1

\* if len(args) > 2
TooMany(a) == Len(a) > 2

\* for arg in args: if isinstance(arg, (int, long, float)): secs = arg
RECURSIVE SecsAfter(_, _)
SecsAfter(a, secs) ==
  IF a = <<>> THEN secs
  ELSE SecsAfter(Tail(a), IF Head(a).k = "num" THEN Head(a).v ELSE secs)

\* for arg in args: if callable(arg): until = arg
RECURSIVE UntilAfter(_, _)
UntilAfter(a, until) ==
  IF a = <<>> THEN until
  ELSE UntilAfter(Tail(a),
                  IF Head(a).k = "callable" THEN Head(a).v ELSE until)

\* wait(*a) up to its first wait: TypeError for too many arguments, a
\* WebDriverWait object when no callable was given, else the wait on it
WaitCall ==
  /\ wt_pc = "idle"
  /\ wt_result = "none"
  /\ \E n \in 0..MaxArgs : wt_args' \in [1..n -> WaitArgValues]
  /\ wt_polled' = FALSE
  /\ IF TooMany(wt_args')
     THEN /\ wt_pc' = "raised"
          /\ wt_result' = "TypeError"
          /\ UNCHANGED <<wt_secs, wt_until>>
     ELSE /\ wt_secs' = SecsAfter(wt_args', default_wait)
          /\ wt_until' = UntilAfter(wt_args', None)
          /\ IF wt_until' # None
             THEN wt_pc' = "until" /\ UNCHANGED wt_result
             ELSE wt_pc' = "returned" /\ wt_result' = "WebDriverWait"
  /\ UNCHANGED <<sessVars, cfgVars, wrapVars, runVars, retryVars, readyVars,
                 absentVars, lookupVars, shortVars, acctVars,
                 containsVars>>

\* WebDriverWait(self, secs).until(until): the callable's value once it is
\* true, TimeoutException after secs, or what the callable raises
WaitUntil ==
  /\ wt_pc = "until"
  /\ wt_polled' = TRUE
  /\ \/ wt_pc' = "returned" /\ wt_result' = "value"
     \/ wt_pc' = "raised"
          /\ wt_result' \in {"TimeoutException", "WebDriverException"}
  /\ UNCHANGED <<wt_args, wt_secs, wt_until>>
  /\ UNCHANGED <<sessVars, cfgVars, wrapVars, runVars, retryVars, readyVars,
                 absentVars, lookupVars, shortVars, acctVars,
                 containsVars>>

InitWaitVars ==
  /\ wt_pc = "idle"
  /\ wt_args = <<>>
  /\ wt_secs = DefaultWait
  /\ wt_until = None
  /\ wt_polled = FALSE
  /\ wt_result = "none"


(***************************************************************************)
(* Browser.__call__: b(val).                                               *)
(***************************************************************************)
\* how many polls a wait has time for
MaxPolls == 3

\* how many elements the page holds for the selector, one after another
MaxElements == 3

\* what the page holds for the selector
ElementStates == {"absent", "hidden", "shown"}

\* if not val: None (the default) and the empty string
Falsy(val) == val \in {"none", "empty"}

\* (a call that gives up waiting for the element to be displayed)
PhaseAfterAlwaysFinal(phase) == "final"

\* the statement after a wait that succeeded: the second wait after the
\* first, `return self.find(val)` after the second
PhaseAfter(phase) == IF phase = "phase1" THEN "phase2" ELSE "final"

\* b(val) is called: ActionChains(self) without a val, else the first wait
ShortCall ==
  /\ sh_pc = "idle"
  /\ sh_result = "none"
  /\ sh_val' \in {"none", "empty", "selector"}
  /\ el' \in ElementStates
  /\ el_id' = IF el' = "absent" THEN 0 ELSE 1
  /\ IF Falsy(sh_val')
     THEN sh_pc' = "returned" /\ sh_result' = "ActionChains"
     ELSE sh_pc' = "phase1" /\ UNCHANGED sh_result
  /\ UNCHANGED <<sh_polls, sh_lookups, seenPresent, seenDisplayed,
                 sh_timeout, seenId, sh_ret>>
  /\ UNCHANGED <<sessVars, cfgVars, wrapVars, runVars, retryVars, readyVars,
                 absentVars, lookupVars, waitVars, acctVars,
                 containsVars>>

\* the page changes while the call waits: the element is hidden, shown or
\* removed, an element appears where there was none, or the element is
\* replaced by another that matches the selector
PageChange ==
  /\ sh_pc \in {"phase1", "phase2", "final"}
  /\ \/ /\ el # "absent"
        /\ el' \in ElementStates \ {el}
        /\ UNCHANGED el_id
     \/ /\ el_id < MaxElements
        /\ el' \in ElementStates \ {"absent"}
        /\ el_id' = el_id + 1
  /\ UNCHANGED <<sh_pc, sh_val, sh_polls, sh_lookups, seenPresent,
                 seenDisplayed, sh_timeout, sh_result, seenId, sh_ret>>
  /\ UNCHANGED <<sessVars, cfgVars, wrapVars, runVars, retryVars, readyVars,
                 absentVars, lookupVars, waitVars, acctVars,
                 containsVars>>

\* what the callable of a wait does on the page as it is: b.find(val) in the
\* first wait, b.find(val).is_displayed() in the second.  "true" ends the
\* wait, "again" (a false value, or the NoSuchElementException that
\* WebDriverWait ignores) makes it poll again, anything else is raised.
PollOutcomes(phase) ==
  CASE el = "absent" -> {"again"}
    [] el = "hidden" -> IF phase = "phase1" THEN {"true"} ELSE {"again"}
    [] el = "shown" -> {"true"}

\* one poll of WebDriverWait.until in either wait.  The readiness gate in
\* front of the lookup may fail its assertion, and the element found may be
\* gone when is_displayed() asks for it.
ShortPoll ==
  /\ sh_pc \in {"phase1", "phase2"}
  /\ \/ /\ sh_lookups' = sh_lookups + 1
        /\ \E o \in PollOutcomes(sh_pc) :
             IF o = "true"
             THEN /\ sh_pc' = PhaseAfter(sh_pc)
                  /\ sh_polls' = 0
                  /\ seenPresent' = TRUE
                  /\ seenDisplayed' = (sh_pc = "phase2")
                  /\ seenId' = IF sh_pc = "phase2" THEN el_id ELSE seenId
                  /\ UNCHANGED <<sh_timeout, sh_result>>
             ELSE /\ sh_polls' = sh_polls + 1
                  /\ UNCHANGED <<seenPresent, seenDisplayed, seenId>>
                  /\ \/ /\ sh_polls' < MaxPolls
                        /\ UNCHANGED <<sh_pc, sh_timeout, sh_result>>
                     \/ /\ sh_pc' = "raised"
                        /\ sh_timeout' = TRUE
                        /\ sh_result' = "TimeoutException"
     \/ /\ sh_pc' = "raised"
        /\ sh_polls' = sh_polls + 1
        /\ \/ /\ sh_result' = "AssertionError"
              /\ UNCHANGED sh_lookups
           \/ /\ sh_pc = "phase2"
              /\ el # "absent"
              /\ sh_result' = "StaleElementReferenceException"
              /\ sh_lookups' = sh_lookups + 1
        /\ UNCHANGED <<seenPresent, seenDisplayed, sh_timeout, seenId>>
  /\ UNCHANGED <<sh_val, el, el_id, sh_ret>>
  /\ UNCHANGED <<sessVars, cfgVars, wrapVars, runVars, retryVars, readyVars,
                 absentVars, lookupVars, waitVars, acctVars,
                 containsVars>>

\* return self.find(val): a lookup of its own, made after both waits, on
\* the page as it is then
ShortFinal ==
  /\ sh_pc = "final"
  /\ \/ /\ sh_lookups' = sh_lookups + 1
        /\ IF el = "absent"
           THEN /\ sh_pc' = "raised"
                /\ sh_result' = "NoSuchElementException"
                /\ UNCHANGED sh_ret
           ELSE /\ sh_pc' = "returned"
                /\ sh_result' = "element"
                /\ sh_ret' = <<el_id, el>>
     \/ /\ sh_pc' = "raised"
        /\ sh_result' = "AssertionError"
        /\ UNCHANGED <<sh_lookups, sh_ret>>
  /\ UNCHANGED <<sh_val, el, sh_polls, seenPresent, seenDisplayed,
                 sh_timeout, el_id, seenId>>
  /\ UNCHANGED <<sessVars, cfgVars, wrapVars, runVars, retryVars, readyVars,
                 absentVars, lookupVars, waitVars, acctVars,
                 containsVars>>

InitShortVars ==
  /\ sh_pc = "idle"
  /\ sh_val = "none"
  /\ el = "absent"
  /\ sh_polls = 0
  /\ sh_lookups = 0
  /\ seenPresent = FALSE
  /\ seenDisplayed = FALSE
  /\ sh_timeout = FALSE
  /\ sh_result = "none"
  /\ el_id = 0
  /\ seenId = 0
  /\ sh_ret = <<>>


(***************************************************************************)
(* Browser.login and Browser.logout.                                       *)
(***************************************************************************)
\* self.username = None
Unset == "<None>"

\* the users and passwords of the tests
Usernames == {"justa_tester", "justa_badusername"}
Passwords == {"testing1", "wrong"}

\* where a call of login can raise: the navigation, the three waits for a
\* form element, or the click
LoginStages == {"go", "login", "password", "button", "click"}

\* what a stage raises: the driver's error, or the timeout of b(val)
StageError(stage) ==
  IF stage \in {"go", "click"} THEN "WebDriverException"
  ELSE "TimeoutException"

\* (a login that records the identity before it touches the page)
RecordsAlways(failAt) == TRUE

\* the three assignments come after click(): they run when no statement
\* before them raised
Records(failAt) == failAt = "none"

\* login(u, p): the statements up to the click, then the three assignments;
\* whether the application accepts the credentials is not looked at
Login ==
  /\ \E u \in Usernames : \E p \in Passwords :
     \E failAt \in LoginStages \cup {"none"} :
     \E accepted \in BOOLEAN :
       /\ ac_in' = [username |-> u, password |-> p, failAt |-> failAt,
                    accepted |-> accepted]
       /\ IF Records(failAt)
          THEN /\ username' = u
               /\ password' = p
               /\ email' = Unset
          ELSE UNCHANGED <<username, password, email>>
       /\ ac_result' = IF failAt = "none" THEN "returned"
                       ELSE StageError(failAt)
  /\ ac_op' = "login"
  /\ ac_before' = <<username, password, email>>
  /\ UNCHANGED <<sessVars, cfgVars, wrapVars, runVars, retryVars, readyVars,
                 absentVars, lookupVars, waitVars, shortVars,
                 containsVars>>

\* WebElement.contains, patched in as _contains: the element found by
\* find_element_by_xpath, which raises when there is none
ElementContains(marker) ==
  IF marker THEN "element" ELSE "NoSuchElementException"

\* assert <value>: a WebElement is true, None is not; an exception raised
\* while the value is computed is the statement's outcome
AssertOutcome(value) ==
  CASE value = "element" -> "returned"
    [] value = "None" -> "AssertionError"
    [] OTHER -> value

\* logout(): self.go('/logout_handler'), then self('h1'), which times out
\* unless an h1 is there and displayed, then .contains('Please Log In')
\* under the assert
LogoutOutcome(navOk, h1, marker) ==
  IF ~navOk THEN "WebDriverException"
  ELSE IF h1 # "shown" THEN "TimeoutException"
  ELSE AssertOutcome(ElementContains(marker))

\* logout() on a page after the logout endpoint was asked for
Logout ==
  /\ \E navOk \in BOOLEAN : \E h1 \in ElementStates : \E marker \in BOOLEAN :
       /\ ac_in' = [navOk |-> navOk, h1 |-> h1, marker |-> marker]
       /\ ac_result' = LogoutOutcome(navOk, h1, marker)
  /\ ac_op' = "logout"
  /\ ac_before' = <<username, password, email>>
  /\ UNCHANGED <<username, password, email>>
  /\ UNCHANGED <<sessVars, cfgVars, wrapVars, runVars, retryVars, readyVars,
                 absentVars, lookupVars, waitVars, shortVars,
                 containsVars>>

InitAcctVars ==
  /\ username = Unset
  /\ password = Unset
  /\ email = Unset
  /\ ac_op = "none"
  /\ ac_in = <<>>
  /\ ac_before = <<Unset, Unset, Unset>>
  /\ ac_result = "none"


(***************************************************************************)
(* Browser.contains.                                                       *)
(***************************************************************************)
\* the tag argument: the default, or a tag of its own
Tags == {"*", "h1", "div"}

\* how a query through self.xpath can end: the element, not-found, the
\* failed assertion of the readiness gate, another error of the driver, or
\* an error that is none of the driver's
QueryOutcomes == {"element", "NoSuchElementException", "AssertionError",
                  "WebDriverException", "TypeError"}

\* (a fallback that is tried for the default tag as well)
FallsBackAlways(tag) == TRUE

\* if (tag != '*')
FallsBack(tag) == tag # "*"

\* what follows an exception exc leaving _do_it: retry_loop's guarded call
\* catches it and calls again while the counter allows, the last call is
\* unguarded
AttemptFailed(exc) ==
  IF LoopsAgain(ct_counter) /\ Caught(exc)
  THEN /\ ct_counter' = ct_counter - 1
       /\ ct_attempt' = ct_attempt + 1
       /\ ct_pc' = "direct"
       /\ UNCHANGED ct_result
  ELSE /\ ct_pc' = "raised"
       /\ ct_result' = exc
       /\ UNCHANGED <<ct_counter, ct_attempt>>

\* contains(text, tag): self.retry_loop(2, _do_it)
ContainsCall ==
  /\ ct_pc = "idle"
  /\ ct_result = "none"
  /\ ct_tag' \in Tags
  /\ ct_counter' = 2
  /\ ct_attempt' = 1
  /\ ct_log' = <<>>
  /\ ct_pc' = "direct"
  /\ UNCHANGED ct_result
  /\ UNCHANGED <<sessVars, cfgVars, wrapVars, runVars, retryVars, readyVars,
                 absentVars, lookupVars, waitVars, shortVars, acctVars>>

\* _do_it, the try block: the query //tag[contains(text(),"text")]
ContainsDirect ==
  /\ ct_pc = "direct"
  /\ \E o \in QueryOutcomes :
       /\ ct_log' = Append(ct_log, [attempt |-> ct_attempt,
                                    query |-> "direct", out |-> o])
       /\ IF o = "element"
          THEN /\ ct_pc' = "returned"
               /\ ct_result' = "element"
               /\ UNCHANGED <<ct_counter, ct_attempt>>
          ELSE IF o = "NoSuchElementException" /\ FallsBack(ct_tag)
          THEN /\ ct_pc' = "fallback"
               /\ UNCHANGED <<ct_counter, ct_attempt, ct_result>>
          ELSE AttemptFailed(o)
  /\ UNCHANGED ct_tag
  /\ UNCHANGED <<sessVars, cfgVars, wrapVars, runVars, retryVars, readyVars,
                 absentVars, lookupVars, waitVars, shortVars, acctVars>>

\* _do_it, the except clause: the query //tag//*[contains(text(),"text")]
ContainsFallback ==
  /\ ct_pc = "fallback"
  /\ \E o \in QueryOutcomes :
       /\ ct_log' = Append(ct_log, [attempt |-> ct_attempt,
                                    query |-> "fallback", out |-> o])
       /\ IF o = "element"
          THEN /\ ct_pc' = "returned"
               /\ ct_result' = "element"
               /\ UNCHANGED <<ct_counter, ct_attempt>>
          ELSE AttemptFailed(o)
  /\ UNCHANGED ct_tag
  /\ UNCHANGED <<sessVars, cfgVars, wrapVars, runVars, retryVars, readyVars,
                 absentVars, lookupVars, waitVars, shortVars, acctVars>>

InitContainsVars ==
  /\ ct_pc = "idle"
  /\ ct_tag = "*"
  /\ ct_counter = 2
  /\ ct_attempt = 1
  /\ ct_log = <<>>
  /\ ct_result = "none"

vars == <<sessVars, cfgVars, wrapVars, runVars, retryVars, readyVars,
          absentVars, moreVars>>

InitAll ==
  /\ InitSess /\ InitCfg /\ InitWrap /\ InitRunVars
  /\ InitRetryVars /\ InitReadyVars /\ InitAbsentVars
  /\ InitLookupVars /\ InitWaitVars /\ InitShortVars /\ InitAcctVars
  /\ InitContainsVars

InitRun == InitAll

NextRun ==
  \/ RunCall
  \/ PreTeardown
  \/ AfterPreTeardown
  \/ Setup
  \/ InvokeTest
  \/ TestDone
  \/ FinalTeardown
  \/ AfterFinalTeardown
  \/ Return
  \/ WrapperEnter
  \/ BodyQuit
  \/ BodyReturn
  \/ BodyRaise
  \/ WrapperExcept

SpecRun == InitRun /\ [][NextRun]_vars

InitSession == InitAll

NextSession ==
  \/ ShellCall
  \/ ShellDone
  \/ ShellQuit
  \/ WrapperEnter
  \/ BodyQuit
  \/ BodyReturn
  \/ BodyRaise
  \/ WrapperExcept

SpecSession == InitSession /\ [][NextSession]_vars

\* auto-managed calls mixed with sessions the caller constructs and quits
InitExplicit == InitAll

NextExplicit ==
  \/ ShellCall
  \/ ShellDone
  \/ ShellQuit
  \/ WrapperEnter
  \/ BodyQuit
  \/ BodyReturn
  \/ BodyRaise
  \/ WrapperExcept
  \/ ExplicitCreate
  \/ ExplicitQuit

SpecExplicit == InitExplicit /\ [][NextExplicit]_vars

\* one call of Browser.contains
InitContains == InitAll

NextContains ==
  \/ ContainsCall
  \/ ContainsDirect
  \/ ContainsFallback

SpecContains == InitContains /\ [][NextContains]_vars

\* calls of login and logout on one Browser
InitAccount == InitAll

NextAccount ==
  \/ Login
  \/ Logout

SpecAccount == InitAccount /\ [][NextAccount]_vars

\* one call b(val) on a page that changes as the call waits
InitShort == InitAll

NextShort ==
  \/ ShortCall
  \/ PageChange
  \/ ShortPoll
  \/ ShortFinal

SpecShort == InitShort /\ [][NextShort]_vars

\* one call of Browser.wait
InitWait == InitAll

NextWait ==
  \/ WaitCall
  \/ WaitUntil

SpecWait == InitWait /\ [][NextWait]_vars

\* one element lookup on a page of any application
InitLookup == InitAll

NextLookup ==
  \/ LookupCall
  \/ LookupGate
  \/ ReadyPoll
  \/ ReadyAssert
  \/ LookupForward
  \/ LookupDriver

SpecLookup == InitLookup /\ [][NextLookup]_vars

\* decorated tests called with and without a Browser argument, with the
\* screenshot configuration on or off
InitInject == InitAll

NextInject ==
  \/ Configure
  \/ ExplicitCreate
  \/ ShellCall
  \/ ShellCallWith
  \/ ShellDone
  \/ WrapperEnter
  \/ BodyQuit
  \/ BodyReturn
  \/ BodyRaise
  \/ WrapperExcept

SpecInject == InitInject /\ [][NextInject]_vars

InitRetry == InitAll

NextRetry ==
  \/ RetryCall
  \/ RetryRound
  \/ RetryLast

SpecRetry == InitRetry /\ [][NextRetry]_vars

InitReady == InitAll

NextReady ==
  \/ ReadyCall
  \/ ReadyPoll
  \/ ReadyAssert

SpecReady == InitReady /\ [][NextReady]_vars

InitAbsent == InitAll

NextAbsent ==
  \/ SetDefaultWait
  \/ AbsentCall
  \/ AbsentProbe
  \/ AbsentFinally

SpecAbsent == InitAbsent /\ [][NextAbsent]_vars

(***************************************************************************)
(* What the claims speak of, read off the runner's record of its calls.    *)
(***************************************************************************)
\* the names of the test methods the runner invoked, in order
Invoked ==
  LET t == SelectSeq(events, LAMBDA e : e.k = "test")
  IN  [i \in 1..Len(t) |-> t[i].n]

IsDigit(c) == c \in 48..57

\* the name carries two digits at positions 5 and 6 (counted from 0)
HasOrdinal(n) == Len(n) >= 7 /\ IsDigit(n[6]) /\ IsDigit(n[7])

\* the number those two digits write
OrdinalOf(n) == (n[6] - 48) * 10 + (n[7] - 48)

\* the names of the entity whose ordinal lies in [initial, through]
InRange == {n \in Dir : HasOrdinal(n) /\ OrdinalOf(n) \in initial..through}

Called(kind) == \E i \in 1..Len(events) : events[i].k = kind

\* the run went through without any selected method raising
RanThrough == rpc = "returned" /\ failed # "test"

\* C1 as claimed: for 0 <= initial <= through, a run in which no step raises
\* has invoked exactly the methods whose name carries an ordinal in
\* [initial, through], each once, in ascending ordinal order.
C1_AscendingOrdinals ==
  (RanThrough /\ initial <= through) =>
    /\ {Invoked[i] : i \in 1..Len(Invoked)} = InRange
    /\ Len(Invoked) = Cardinality(InRange)
    /\ \A i, j \in 1..Len(Invoked) :
         i < j => OrdinalOf(Invoked[i]) <= OrdinalOf(Invoked[j])

\* C1 as amended: such a run has invoked exactly the methods whose name
\* carries an ordinal in [initial, through], each once, in ascending order of
\* the whole name; that is ascending ordinal order whenever the invoked names
\* agree on their first five characters.
C1_AscendingNames ==
  (RanThrough /\ initial <= through) =>
    /\ {Invoked[i] : i \in 1..Len(Invoked)} = InRange
    /\ Len(Invoked) = Cardinality(InRange)
    /\ \A i, j \in 1..Len(Invoked) :
         i < j =>
           /\ StrLess(Invoked[i], Invoked[j])
           /\ Slice(Invoked[i], 0, 5) = Slice(Invoked[j], 0, 5)
                => OrdinalOf(Invoked[i]) <= OrdinalOf(Invoked[j])

\* a run that invoked Test_02 before test_01, test_02 and test_03
C1_Witness ==
  /\ RanThrough
  /\ Invoked = <<n_Test_02, n_test_01, n_test_02, n_test_03>>

\* the four classes the except clause of retry_loop names
Transient == {"WebDriverException", "TimeoutException",
              "StaleElementReferenceException", "AssertionError"}

\* C2: for n >= 1 and a hook that raises a transient failure k times and
\* then succeeds, retry_loop returns the hook's value after k + 1 calls when
\* k < n, and lets the failure of the n-th call through after n calls when
\* k >= n.
C2_RetryCounts ==
  (rl_pc \in {"returned", "raised"} /\ attempts >= 1
     /\ hookKind \in Transient) =>
    IF hookFails < attempts
    THEN rl_pc = "returned" /\ rl_result = "value"
           /\ hookCalls = hookFails + 1
    ELSE rl_pc = "raised" /\ rl_result = hookKind /\ hookCalls = attempts

\* three attempts, all failing with a timeout
C2_Witness ==
  /\ rl_pc = "raised"
  /\ attempts = 3
  /\ hookFails >= 3
  /\ hookKind = "TimeoutException"
  /\ hookCalls = 3

\* C3: on a gated page whose flag reads false N times and then true, the
\* gate returns after N + 1 polls when N < 30 and fails its assertion after
\* 30 polls when N >= 30; it never polls a 31st time, and every round of the
\* loop uses up one of the 30.
C3_GatePolls ==
  Gated(hostname, path) =>
    /\ polls <= 30
    /\ rd_pc = "poll" => (ready_counter >= 0 /\ polls + ready_counter = 30)
    /\ rd_pc \in {"returned", "raised"} =>
         IF flipAfter < 30
         THEN rd_pc = "returned" /\ polls = flipAfter + 1
         ELSE rd_pc = "raised" /\ polls = 30

\* the flag turns true on the last poll the gate makes
C3_Witness ==
  /\ Gated(hostname, path)
  /\ rd_pc = "returned"
  /\ flipAfter = 29
  /\ polls = 30

C5_SetupIffInitialZero ==
  /\ Called("setup") => initial = 0 /\ hasSetup
  /\ (rpc \notin {"idle", "pre_td", "in_pre_td", "setup"}
        /\ initial = 0 /\ hasSetup) => Called("setup")
  /\ \A i, j \in 1..Len(events) :
       (events[i].k = "setup" /\ events[j].k \in {"setup", "test"} /\ i # j)
         => (i < j /\ events[j].k = "test")
  /\ failed = "setup" => Invoked = <<>>
  /\ (initial = 2 /\ through = 2
        /\ group = {n_test_01, n_test_02, n_test_03}) =>
       /\ ~Called("setup")
       /\ \A i \in 1..Len(Invoked) : Invoked[i] = n_test_02
       /\ rpc = "returned" => Invoked = <<n_test_02>>

\* a run from 0 that called setup and then two methods
C5_Witness ==
  /\ rpc = "returned"
  /\ initial = 0
  /\ Len(events) >= 3
  /\ events[1].k = "setup"
  /\ Len(Invoked) = 2

\* C6 as claimed: whatever the options, a run all of whose selected methods
\* returned has called the entity's teardown after the last of them.
C6_TeardownAfterLast ==
  (RanThrough /\ tdKind # "none") =>
    /\ Len(events) >= 1
    /\ events[Len(events)].k = "td_final"

\* C7 as claimed: the call never raises to its caller.
C7_NeverRaises == rpc # "raised"

\* C7 as amended: a failure of the pre-run teardown, of a selected method
\* or of the final teardown never reaches the caller, and the call then
\* returns the current shared session; the one failure that reaches the
\* caller is that of setup.
C7_OnlySetupRaises ==
  /\ rpc = "raised" =>
       /\ failed = "setup"
       /\ events[Len(events)].k = "setup"
  /\ rpc = "returned" => result = CURRENT_BROWSER
  /\ failed \in {"test", "td_final"} => rpc \in {"finally", "returned"}

\* a run that returned although its pre-run teardown and a method raised
C7_Witness ==
  /\ rpc = "returned"
  /\ preTdFailed
  /\ tdKind = "raise"
  /\ failed = "test"
  /\ Called("setup")

\* C8: once a selected method has raised, nothing more is called (no later
\* method, no teardown), and the call returns CURRENT_BROWSER as it was when
\* the method raised: the same session, still active.
C8_FailureContained ==
  failed = "test" =>
    /\ events[Len(events)].k = "test"
    /\ rpc \in {"finally", "returned"}
    /\ CURRENT_BROWSER = curAtRaise
    /\ curAtRaise # None => curAtRaise \in live
    /\ rpc = "returned" => result = curAtRaise

\* a run whose first method raised with the session active, with methods
\* and a quitting teardown left
C8_Witness ==
  /\ rpc = "returned"
  /\ failed = "test"
  /\ result # None
  /\ result \in live
  /\ todo # <<>>
  /\ td /\ tdKind = "quit"

\* C9 as claimed: after a run in which a test method raised has returned,
\* the shared session is absent.
C9_AbsentAfterFailure ==
  (rpc = "returned" /\ failed = "test") => CURRENT_BROWSER = None

\* C9 as amended: a run that went through without a failure, with td set
\* and a teardown that quits the session, leaves no shared session; a run
\* in which a test method raised leaves the shared session as it was.
C9_TornDownOnSuccessOnly ==
  /\ (rpc = "returned" /\ failed = "none" /\ td /\ tdKind = "quit")
       => (CURRENT_BROWSER = None /\ result = None)
  /\ (rpc = "returned" /\ failed = "test") => CURRENT_BROWSER = curAtRaise

\* a run of two methods on a session that the final teardown ended
C9_Witness ==
  /\ rpc = "returned"
  /\ failed = "none"
  /\ ~preTdFailed
  /\ td /\ tdKind = "quit"
  /\ Len(Invoked) = 2
  /\ CURRENT_BROWSER = None
  /\ ended # {}

\* C10: CURRENT_BROWSER is None or one active session that was never quit;
\* a decorated call entered while it is None gets one new Browser, which is
\* current; a call entered while it is set gets that Browser and makes none;
\* quit() leaves the global cleared also when the driver's quit raises.
C10_SharedLifecycle ==
  /\ CURRENT_BROWSER # None =>
       (CURRENT_BROWSER \in live /\ CURRENT_BROWSER \notin ended)
  /\ (wpc = "body" /\ curAtEnter = None) =>
       /\ made = madeAtEnter + 1
       /\ passed = made
       /\ ~quitDone => (CURRENT_BROWSER = passed /\ passed \notin ended)
  /\ (wpc = "body" /\ curAtEnter # None) =>
       /\ made = madeAtEnter
       /\ passed = curAtEnter
  /\ wpc \in {"body", "ret", "exc"} => made <= madeAtEnter + 1
  /\ quitDone /\ wpc \in {"body", "ret", "exc"} => CURRENT_BROWSER = None

\* a call that got a new Browser after the driver of the one before it
\* had refused to quit
C10_Witness ==
  /\ wpc = "body"
  /\ curAtEnter = None
  /\ passed = 2
  /\ CURRENT_BROWSER = 2
  /\ 1 \in ended
  /\ 1 \in live

\* C11: a session the caller constructs is independent of the shared one:
\* constructing it never changes CURRENT_BROWSER, and quit() on it never
\* changes CURRENT_BROWSER, whatever its SECONDARY is.
C11_ExplicitIndependent ==
  [][ /\ (explicit' # explicit => CURRENT_BROWSER' = CURRENT_BROWSER)
      /\ ((\E b \in explicit : b \in ended' \ ended)
            => CURRENT_BROWSER' = CURRENT_BROWSER) ]_vars

\* the Browser among the positional arguments a
TheBrowser(a) == a[CHOOSE i \in 1..Len(a) : IsBrowser(a[i])]

\* C12: when the wrapper hands control to the decorated test, the parameter
\* b of the test is bound to the Browser passed in, with CURRENT_BROWSER
\* neither created nor changed, if a Browser is among the positional
\* arguments, and to the shared Browser (created first if absent)
\* otherwise; for functions and for methods invoked on an instance alike.
C12_Injection ==
  [][ (wpc = "call" /\ wpc' = "body") =>
        IF HasBrowser(args)
        THEN /\ passed' = TheBrowser(args)
             /\ CURRENT_BROWSER' = CURRENT_BROWSER
             /\ made' = made
        ELSE /\ passed' = CURRENT_BROWSER'
             /\ passed' # None
             /\ CURRENT_BROWSER # None =>
                  CURRENT_BROWSER' = CURRENT_BROWSER /\ made' = made ]_vars

\* C13: whatever the screenshot attempt does, the exception that leaves
\* the wrapper after the decorated test raised e is e itself.
C13_SameFailure ==
  (wpc = "exc" /\ excOut # "launch") => excOut = "e"

\* C14: no lookup of any operation is forwarded to the driver unless
\* wait_until_ready() was called for it and returned.
C14_GateFirst ==
  lk_pc = "driver" => rd_pc = "returned"

\* C15: for every integer n, zero and negative included, retry_loop calls
\* the hook at least once, exactly once when n <= 1, and ends as the last
\* call of the hook ended: with its value, or with its exception.
C15_AtLeastOnce ==
  rl_pc \in {"returned", "raised"} =>
    /\ hookCalls >= 1
    /\ attempts <= 1 => hookCalls = 1
    /\ rl_pc = "returned" =>
         rl_result = "value" /\ hookCalls = hookFails + 1
    /\ rl_pc = "raised" =>
         rl_result = hookKind /\ hookCalls <= hookFails

\* a negative n: one call, whose timeout is let through
C15_Witness ==
  /\ rl_pc = "raised"
  /\ attempts = 0 - 1
  /\ hookKind = "TimeoutException"
  /\ hookCalls = 1
  /\ rl_result = "TimeoutException"

\* C16: the hook is called again only after a failure of one of the four
\* transient kinds; a failure of any other kind, not-found included, is let
\* through at once.
C16_OnlyTransientRetried ==
  (rl_pc \in {"returned", "raised"} /\ hookFails >= 1
     /\ hookKind \notin Transient) =>
    rl_pc = "raised" /\ rl_result = hookKind /\ hookCalls = 1

\* WebDriverException with the selenium classes derived from it, and
\* AssertionError
DriverFamily == Transient \cup {"NoSuchElementException"}

\* C16, amended: the hook is called again only after a failure that is a
\* WebDriverException (not-found included) or an AssertionError, and after
\* such a failure it is called again while attempts are left; a failure of
\* another kind is let through at once.
C16_OnlyDriverFamilyRetried ==
  rl_pc \in {"returned", "raised"} =>
    /\ hookCalls >= 2 => hookKind \in DriverFamily
    /\ (hookFails >= 1 /\ hookKind \notin DriverFamily) =>
         rl_pc = "raised" /\ rl_result = hookKind /\ hookCalls = 1
    /\ (hookFails >= 1 /\ hookKind \in DriverFamily /\ attempts >= 2) =>
         hookCalls >= 2

\* a not-found failure of the first of two attempts is retried
C16_Witness ==
  /\ rl_pc = "returned"
  /\ attempts = 2
  /\ hookKind = "NoSuchElementException"
  /\ hookFails = 1
  /\ hookCalls = 2

\* how many arguments of a are of kind k
CountKind(a, k) == Cardinality({i \in 1..Len(a) : a[i].k = k})

\* the value of the last argument of a that is of kind k, else dflt
LastKind(a, k, dflt) ==
  LET at == {i \in 1..Len(a) : a[i].k = k}
  IN  IF at = {} THEN dflt
      ELSE a[CHOOSE i \in at : \A j \in at : j <= i].v

\* C17: a call of wait with three or more arguments, two numbers or two
\* callables raises TypeError before any waiting, and every other call is
\* accepted.
C17_AtMostOneEach ==
  wt_pc # "idle" =>
    IF \/ Len(wt_args) > 2
       \/ CountKind(wt_args, "num") > 1
       \/ CountKind(wt_args, "callable") > 1
    THEN wt_pc = "raised" /\ wt_result = "TypeError" /\ ~wt_polled
    ELSE wt_result # "TypeError"

\* C17, amended: a call of wait with three or more arguments raises
\* TypeError before any waiting; a call with at most two is accepted
\* whatever they are: the last number given is the timeout (else
\* default_wait), the last callable given is waited on, and without a
\* callable a WebDriverWait object is returned with no waiting.
C17_AtMostTwoArguments ==
  wt_pc # "idle" =>
    IF Len(wt_args) > 2
    THEN wt_pc = "raised" /\ wt_result = "TypeError" /\ ~wt_polled
    ELSE /\ wt_result # "TypeError"
         /\ wt_secs = LastKind(wt_args, "num", default_wait)
         /\ wt_until = LastKind(wt_args, "callable", None)
         /\ wt_until = None =>
              wt_pc = "returned" /\ wt_result = "WebDriverWait"
                /\ ~wt_polled
         /\ wt_until # None => (wt_polled <=> wt_pc # "until")

\* two numbers: accepted, the second is the timeout
C17_Witness ==
  /\ wt_pc = "returned"
  /\ Len(wt_args) = 2
  /\ CountKind(wt_args, "num") = 2
  /\ wt_args[1].v = 3
  /\ wt_secs = 7
  /\ wt_result = "WebDriverWait"

C19_AssertsMarker ==
  (ac_op = "logout" /\ ac_in.navOk /\ ac_in.h1 = "shown") =>
    ac_result = IF ac_in.marker THEN "returned" ELSE "AssertionError"

C22_IdentityRecorded ==
  ac_op = "login" =>
    /\ ac_result = "returned" <=> ac_in.failAt = "none"
    /\ ac_result = "returned" =>
         <<username, password, email>>
           = <<ac_in.username, ac_in.password, Unset>>
    /\ ac_result # "returned" =>
         <<username, password, email>> = ac_before

\* a login that the application rejects, after another user's login
C22_Witness ==
  /\ ac_op = "login"
  /\ ac_result = "returned"
  /\ ~ac_in.accepted
  /\ ac_before[1] = "justa_tester"
  /\ username = "justa_badusername"

\* Python's t.endswith(s)
EndsWith(t, s) ==
  Len(s) <= Len(t) /\ SubSeq(t, Len(t) - Len(s) + 1, Len(t)) = s

\* the configured domain, a subdomain of it, or 127.0.0.1
InDomain(host) ==
  host = s_about_me \/ EndsWith(host, s_dot_about_me) \/ host = s_localhost

\* C23: wait_until_ready polls the flag exactly when the host of the
\* current URL is about.me, a subdomain of it or 127.0.0.1 and the path
\* does not start with /content/; otherwise it returns without a poll.
C23_GateApplies ==
  rd_pc \in {"returned", "raised"} =>
    IF InDomain(hostname) /\ ~StartsWith(path, s_content)
    THEN polls >= 1
    ELSE polls = 0 /\ rd_pc = "returned"

\* C24: with td, the teardown of the entity is the first call the runner
\* makes, before setup and every selected method; when it raises, the run
\* goes on as after one that returned: setup is called if and only if
\* initial = 0 and the entity has one, only setup can end the run with an
\* exception, and a run no method of which raises invokes the selected
\* methods.
C24_PreTeardownIgnored ==
  /\ \A i \in 1..Len(events) : events[i].k = "td_pre" => (i = 1 /\ td)
  /\ (td /\ tdKind # "none" /\ rpc \notin {"idle", "pre_td"}) =>
       (Len(events) >= 1 /\ events[1].k = "td_pre")
  /\ (preTdFailed /\ rpc \notin {"idle", "pre_td", "in_pre_td"}) =>
       /\ rpc = "raised" => failed = "setup"
       /\ rpc # "setup" => (Called("setup") <=> (initial = 0 /\ hasSetup))
       /\ (RanThrough /\ initial <= through) =>
            {Invoked[i] : i \in 1..Len(Invoked)} = InRange

\* a pre-run teardown that raised, then setup and two methods
C24_Witness ==
  /\ preTdFailed
  /\ tdKind = "raise"
  /\ rpc = "returned"
  /\ Len(events) >= 4
  /\ events[1].k = "td_pre"
  /\ events[2].k = "setup"
  /\ Len(Invoked) = 2

\* the wrapper's except clause has dealt with an exception of a test that
\* was called without a Browser
AutoTestRaised ==
  wpc = "exc" /\ excOut \in {"e", "shot"} /\ ~HasBrowser(args)

\* C25: when a test called without a Browser raises, a screenshot is
\* attempted if the flag of the configuration module is on, and none is
\* attempted and e.msg is left alone if it is off.
C25_ShotIffConfigFlag ==
  AutoTestRaised => (cfgShots <=> shotNote # "none")

\* C25, amended: a screenshot is attempted exactly when the flag of the
\* configuration module is on and the environment variable
\* SELENIUM_SCREENSHOTS is 'true' as well; otherwise, and for a test that
\* was passed a Browser, none is attempted and e.msg is left alone.
C25_ShotIffConfigAndEnv ==
  /\ AutoTestRaised => ((cfgShots /\ envShots) <=> shotNote # "none")
  /\ HasBrowser(args) => shotNote = "none"

\* the flag of the configuration is on, the environment variable is not:
\* the test's exception leaves with no screenshot attempted
C25_Witness ==
  /\ AutoTestRaised
  /\ cfgShots
  /\ ~envShots
  /\ excOut = "e"
  /\ shotNote = "none"

\* the sessions the wrapper created on which quit() was not called
AutoLive == {b \in 1..made : b \notin explicit /\ b \notin ended}

\* C26: at most one session created by the wrapper is live, and a live one
\* is the one CURRENT_BROWSER holds.
C26_NoLeakedShared ==
  /\ Cardinality(AutoLive) <= 1
  /\ \A b \in AutoLive : CURRENT_BROWSER = b

(***************************************************************************)
(* C27: the handle b(selector) returns and the element its second wait     *)
(* observed.                                                               *)
(***************************************************************************)
\* C27: whenever b(selector) has returned an element handle, that handle is
\* of the very element the visibility wait observed displayed, whatever the
\* page did (element hidden, removed or replaced) between the driver
\* requests of the call.
C27_ReturnsObserved ==
  (sh_pc = "returned" /\ sh_result = "element") =>
    /\ seenDisplayed
    /\ sh_ret # <<>>
    /\ sh_ret[1] = seenId

=============================================================================
